---- MODULE Spec2Model ----
(***************************************************************************)
(* Model of the two fixed-capacity caches of the repository:               *)
(*   src/lru_cache.py  LRUCache  (one doubly linked list + hash_map)       *)
(*   src/lfu_cache.py  LFUCache  (one list per frequency + key_node_hash   *)
(*                                + freq_dll_hash + min_freq)              *)
(* Node objects live in `heap`, a function from object identities to their *)
(* fields; prev/next hold object identities, None is Python's None.        *)
(* A behaviour is one cache instance (of class `kind`, built with          *)
(* `capacity`) and the get/put calls its single caller makes on it.        *)
(***************************************************************************)
EXTENDS Integers, Sequences, FiniteSets

\* ---------------------------------------------------------------- bounds
MaxKey      == 3    \* keys are 1..MaxKey
MaxCapacity == 2    \* the constructor is called with 0..MaxCapacity
MaxFreq     == 3    \* a node is bumped only while its freq is below MaxFreq

Keys       == 1..MaxKey
Capacities == 0..MaxCapacity
\* The caller stores under key k either k itself or -1.
PutValues(k) == {-1, k}

VARIABLES
    kind,           \* "LRU" or "LFU": the class of the instance
    capacity,       \* self.capacity
    heap,           \* the Node objects: identity -> fields
    hash_map,       \* LRUCache.hash_map            {key: node}
    key_node_hash,  \* LFUCache.key_node_hash       {key: node}
    freq_dll_hash,  \* LFUCache.freq_dll_hash       {freq: (head, tail)}
    min_freq,       \* LFUCache.min_freq
    ret,            \* the last call, what it returned or raised
    use_order,      \* history: resident keys, least recently touched first
    hist            \* history: the calls so far while they follow a Script

vars == <<kind, capacity, heap, hash_map, key_node_hash, freq_dll_hash,
          min_freq, ret, use_order, hist>>

\* ------------------------------------------------------- object identities
None    == <<"None", 0>>
HeadOf(f) == <<"Head", f>>    \* the "Head" sentinel of bucket f (LRU: f = 0)
TailOf(f) == <<"Tail", f>>    \* the "Tail" sentinel of bucket f (LRU: f = 0)
Slot(i) == <<"N", i>>         \* an entry node
Slots   == {Slot(i) : i \in 1..(MaxKey + 1)}

IsSentinel(n) == n[1] \in {"Head", "Tail"}

\* The key field of a sentinel ("Head"/"Tail" in the source): never a key
\* a caller uses.
SentinelKey == 0

\* A finite function as a set of pairs, extended or cut.
Extend(f, x, y) == [z \in DOMAIN f \cup {x} |-> IF z = x THEN y ELSE f[z]]
Without(f, x)   == [z \in DOMAIN f \ {x} |-> f[z]]
EmptyMap        == [z \in {} |-> 0]

\* The identity a newly constructed Node(key, value) gets: one not in use
\* (the one numbered key when it is free, else the first free one).
FreshSlot(h, key) ==
    LET free == {i \in 1..(MaxKey + 1) : Slot(i) \notin DOMAIN h}
    IN  IF key \in free THEN Slot(key)
        ELSE Slot(CHOOSE i \in free : \A j \in free : i <= j)

HasFreeSlot(h) == \E s \in Slots : s \notin DOMAIN h

\* Reference counting: an entry node nothing refers to any more is freed.
Release(h, index, n) ==
    IF /\ n \in DOMAIN h
       /\ ~IsSentinel(n)
       /\ \A k \in DOMAIN index : index[k] # n
       /\ \A m \in DOMAIN h \ {n} : h[m].prev # n /\ h[m].next # n
    THEN Without(h, n)
    ELSE h

\* What get returns for a key that is not present.
LRUNotFound == -1

\* Mutant: a miss returns 0.
LFUNotFoundZero == 1 - 1

LFUNotFound == -1

\* The outcome of a call.
Returned(h, out) == [h |-> h, out |-> out, exc |-> "none"]
Raised(h, e)     == [h |-> h, out |-> 0, exc |-> e]

\* ------------------------------------------------------------- LRUCache
LRUHead == HeadOf(0)
LRUTail == TailOf(0)

\* Node(key, value) of lru_cache.py
LRUNode(key, value) ==
    [key |-> key, value |-> value, prev |-> None, next |-> None]

\* LRUCache.__init__: the two sentinels, linked to each other.
LRUInitHeap ==
    LET h0 == Extend(Extend(EmptyMap, LRUHead, LRUNode(SentinelKey, SentinelKey)),
                     LRUTail, LRUNode(SentinelKey, SentinelKey))
        h1 == [h0 EXCEPT ![LRUHead].next = LRUTail]
    IN  [h1 EXCEPT ![LRUTail].prev = LRUHead]

\* Mutant: the node is linked before the tail.
AddBeforeTail(h, node) ==
    LET h1 == [h  EXCEPT ![node].prev = h[LRUTail].prev]
        h2 == [h1 EXCEPT ![node].next = LRUTail]
        h3 == [h2 EXCEPT ![LRUTail].prev = node]
    IN  IF h3[node].prev # None
        THEN [h3 EXCEPT ![h3[node].prev].next = node]
        ELSE h3

\* Mutant: the old first node's prev is not set to the new node.
AddNextToHeadOneWay(h, node) ==
    LET h1 == [h  EXCEPT ![node].next = h[LRUHead].next]
        h2 == [h1 EXCEPT ![node].prev = LRUHead]
    IN  [h2 EXCEPT ![LRUHead].next = node]

\* LRUCache.__add_next_to_head
AddNextToHead(h, node) ==
    LET h1 == [h  EXCEPT ![node].next = h[LRUHead].next]
        h2 == [h1 EXCEPT ![node].prev = LRUHead]
        h3 == [h2 EXCEPT ![LRUHead].next = node]
    IN  IF h3[node].next # None
        THEN [h3 EXCEPT ![h3[node].next].prev = node]
        ELSE h3

\* LRUCache.__remove_node_from_current_position; None has no attribute
\* next/prev, so reading node.prev or either assignment can raise
\* AttributeError (the second one after the first has taken effect).
RemoveNodeFromCurrentPosition(h, node) ==
    IF node = None \/ h[node].prev = None
    THEN Raised(h, "AttributeError")
    ELSE LET h1 == [h EXCEPT ![h[node].prev].next = h[node].next]
         IN  IF h1[node].next = None
             THEN Raised(h1, "AttributeError")
             ELSE Returned([h1 EXCEPT ![h1[node].next].prev = h1[node].prev], 0)

\* LRUCache.get. `self.hash_map.get(key)` is the Node of key, which is
\* always true, or None: the test is whether key is indexed.
LRUGetStep(h, hm, key) ==
    IF key \in DOMAIN hm
    THEN LET node == hm[key]
             r    == RemoveNodeFromCurrentPosition(h, node)
         IN  IF r.exc # "none"
             THEN [h |-> r.h, hm |-> hm, out |-> 0, exc |-> r.exc]
             ELSE LET h2 == AddNextToHead(r.h, node)
                  IN  [h |-> h2, hm |-> hm, out |-> h2[node].value, exc |-> "none"]
    ELSE [h |-> h, hm |-> hm, out |-> LRUNotFound, exc |-> "none"]

\* Mutant: the capacity test fires one key too late.
LRUIsFullLate(hm, cap) == Cardinality(DOMAIN hm) > cap

\* Mutant: the capacity test fires one key too early.
LRUIsFullEarly(hm, cap) == Cardinality(DOMAIN hm) + 1 >= cap

\* The test `len(self.hash_map) == self.capacity` of LRUCache.put
LRUIsFull(hm, cap) == Cardinality(DOMAIN hm) = cap

\* Mutant: the node next to the head is taken instead of the one before
\* the tail.
LRUNodeToBeRemovedFront(h) == h[LRUHead].next

\* `node_to_be_removed = self.tail.prev` of LRUCache.put
LRUNodeToBeRemoved(h) == h[LRUTail].prev

\* Mutant: the value of an existing node is not overwritten.
LRUSetValueSkipped(h, node, value) == h

\* `node.value = value` of LRUCache.put
LRUSetValue(h, node, value) == [h EXCEPT ![node].value = value]

\* LRUCache.put, the branch that inserts a new key: Node(key, value) is
\* indexed and linked next to the head.
LRUInsert(h, hm, key, value) ==
    LET node == FreshSlot(h, key)
        h1   == Extend(h, node, LRUNode(key, value))
    IN  [h |-> AddNextToHead(h1, node), hm |-> Extend(hm, key, node),
         out |-> 0, exc |-> "none"]

\* LRUCache.put
LRUPutStep(h, hm, cap, key, value) ==
    IF key \in DOMAIN hm
    THEN LET node == hm[key]
             h1   == LRUSetValue(h, node, value)
             r    == RemoveNodeFromCurrentPosition(h1, node)
         IN  IF r.exc # "none"
             THEN [h |-> r.h, hm |-> hm, out |-> 0, exc |-> r.exc]
             ELSE [h |-> AddNextToHead(r.h, node), hm |-> hm,
                   out |-> 0, exc |-> "none"]
    ELSE IF LRUIsFull(hm, cap)
         THEN LET node_to_be_removed == LRUNodeToBeRemoved(h)
                  r == RemoveNodeFromCurrentPosition(h, node_to_be_removed)
              IN  IF r.exc # "none"
                  THEN [h |-> r.h, hm |-> hm, out |-> 0, exc |-> r.exc]
                  ELSE IF r.h[node_to_be_removed].key \notin DOMAIN hm
                       THEN [h |-> r.h, hm |-> hm, out |-> 0, exc |-> "KeyError"]
                       ELSE LET hm1 == Without(hm, r.h[node_to_be_removed].key)
                                h1  == Release(r.h, hm1, node_to_be_removed)
                            IN  LRUInsert(h1, hm1, key, value)
         ELSE LRUInsert(h, hm, key, value)

\* ------------------------------------------------------------- LFUCache
\* Node(key, value) of lfu_cache.py: freq starts at 1
LFUNode(key, value) ==
    [key |-> key, value |-> value, freq |-> 1, next |-> None, prev |-> None]

\* Mutant: min_freq is never recomputed.
ResetMinFreqSkipped(h, fdh, mf) == mf

\* Mutant: the lists are walked in decreasing order of frequency.
ResetMinFreqLargest(h, fdh, mf) ==
    LET nonempty == {f \in DOMAIN fdh : h[fdh[f][1]].next # fdh[f][2]}
    IN  IF nonempty = {}
        THEN mf
        ELSE CHOOSE f \in nonempty : \A g \in nonempty : f >= g

\* LFUCache.__reset_min_freq: the first frequency, in increasing order, whose
\* list is not empty; min_freq is left alone when every list is empty.
ResetMinFreq(h, fdh, mf) ==
    LET nonempty == {f \in DOMAIN fdh : h[fdh[f][1]].next # fdh[f][2]}
    IN  IF nonempty = {}
        THEN mf
        ELSE CHOOSE f \in nonempty : \A g \in nonempty : f <= g

\* The frequencies whose lists the loop of LFUCache.__reset_min_freq tests
\* (`head.next != tail`): in increasing order, up to the first list that is
\* not empty, where it returns; every list when all are empty.
ResetMinFreqScan(h, fdh) ==
    LET nonempty == {f \in DOMAIN fdh : h[fdh[f][1]].next # fdh[f][2]}
    IN  IF nonempty = {}
        THEN DOMAIN fdh
        ELSE {f \in DOMAIN fdh : \A g \in nonempty : f <= g}

\* LFUCache.__insert_node_next_to_head
InsertNodeNextToHead(h, node, head) ==
    LET h1 == [h  EXCEPT ![node].prev = head]
        h2 == [h1 EXCEPT ![node].next = h1[head].next]
        h3 == [h2 EXCEPT ![head].next = node]
    IN  IF h3[node].next = None
        THEN Raised(h3, "AttributeError")
        ELSE Returned([h3 EXCEPT ![h3[node].next].prev = node], 0)

\* Mutant: the node is left linked where it was.
RemoveTheGivenNodeSkipped(h, node) == Returned(h, 0)

\* LFUCache.__remove_the_given_node
RemoveTheGivenNode(h, node) ==
    IF node = None \/ h[node].prev = None
    THEN Raised(h, "AttributeError")
    ELSE LET h1 == [h EXCEPT ![h[node].prev].next = h[node].next]
         IN  IF h1[node].next = None
             THEN Raised(h1, "AttributeError")
             ELSE Returned([h1 EXCEPT ![h1[node].next].prev = h1[node].prev], 0)

\* Mutant: the node is linked before the tail of the list of freq.
InsertNodeBeforeTail(h, node, tail) ==
    LET h1 == [h  EXCEPT ![node].next = tail]
        h2 == [h1 EXCEPT ![node].prev = h1[tail].prev]
        h3 == [h2 EXCEPT ![tail].prev = node]
    IN  IF h3[node].prev = None
        THEN Raised(h3, "AttributeError")
        ELSE Returned([h3 EXCEPT ![h3[node].prev].next = node], 0)

AddNodeInGivenFreqDllAtTail(h, fdh, node, freq) ==
    LET present == freq \in DOMAIN fdh
        head == IF present THEN fdh[freq][1] ELSE HeadOf(freq)
        tail == IF present THEN fdh[freq][2] ELSE TailOf(freq)
        h0   == IF present THEN h
                ELSE Extend(Extend(h, head,
                         [LFUNode(SentinelKey, SentinelKey) EXCEPT !.next = tail]),
                       tail,
                       [LFUNode(SentinelKey, SentinelKey) EXCEPT !.prev = head])
        fdh0 == IF present THEN fdh ELSE Extend(fdh, freq, <<head, tail>>)
        r    == InsertNodeBeforeTail(h0, node, tail)
    IN  [h |-> r.h, fdh |-> fdh0, exc |-> r.exc]

\* LFUCache.__add_node_in_given_freq_dll: the list of freq is created, with
\* its two sentinels, when freq_dll_hash has none.
AddNodeInGivenFreqDll(h, fdh, node, freq) ==
    LET present == freq \in DOMAIN fdh
        head == IF present THEN fdh[freq][1] ELSE HeadOf(freq)
        tail == IF present THEN fdh[freq][2] ELSE TailOf(freq)
        h0   == IF present THEN h
                ELSE Extend(Extend(h, head,
                         [LFUNode(SentinelKey, SentinelKey) EXCEPT !.next = tail]),
                       tail,
                       [LFUNode(SentinelKey, SentinelKey) EXCEPT !.prev = head])
        fdh0 == IF present THEN fdh ELSE Extend(fdh, freq, <<head, tail>>)
        r    == InsertNodeNextToHead(h0, node, head)
    IN  [h |-> r.h, fdh |-> fdh0, exc |-> r.exc]

\* Mutant: the increment lands on the value field.
LFUIncrementValue(h, node) == [h EXCEPT ![node].value = h[node].value + 1]

\* Mutant: the frequency is doubled.
LFUDoubleFreq(h, node) == [h EXCEPT ![node].freq = h[node].freq + h[node].freq]

\* `node.freq += 1` of LFUCache.__increment_the_freq_of_node
LFUIncrementFreq(h, node) == [h EXCEPT ![node].freq = h[node].freq + 1]

\* LFUCache.__increment_the_freq_of_node
IncrementTheFreqOfNode(h, fdh, mf, node) ==
    LET h1   == LFUIncrementFreq(h, node)
        freq == h1[node].freq
        r    == RemoveTheGivenNode(h1, node)
    IN  IF r.exc # "none"
        THEN [h |-> r.h, fdh |-> fdh, mf |-> mf, exc |-> r.exc]
        ELSE LET a == AddNodeInGivenFreqDll(r.h, fdh, node, freq)
             IN  IF a.exc # "none"
                 THEN [h |-> a.h, fdh |-> a.fdh, mf |-> mf, exc |-> a.exc]
                 ELSE [h |-> a.h, fdh |-> a.fdh,
                       mf |-> ResetMinFreq(a.h, a.fdh, mf), exc |-> "none"]

\* Mutant: a miss sets min_freq back to 1.
LFUGetStepMissResets(h, knh, fdh, mf, key) ==
    IF key \in DOMAIN knh
    THEN LET node == knh[key]
             r    == IncrementTheFreqOfNode(h, fdh, mf, node)
         IN  [h |-> r.h, knh |-> knh, fdh |-> r.fdh, mf |-> r.mf,
              out |-> IF r.exc = "none" THEN r.h[node].value ELSE 0,
              exc |-> r.exc]
    ELSE [h |-> h, knh |-> knh, fdh |-> fdh, mf |-> 1,
          out |-> LFUNotFound, exc |-> "none"]

\* LFUCache.get. `self.key_node_hash.get(key)` is the Node of key, which is
\* always true, or None: the test is whether key is indexed.
LFUGetStep(h, knh, fdh, mf, key) ==
    IF key \in DOMAIN knh
    THEN LET node == knh[key]
             r    == IncrementTheFreqOfNode(h, fdh, mf, node)
         IN  [h |-> r.h, knh |-> knh, fdh |-> r.fdh, mf |-> r.mf,
              out |-> IF r.exc = "none" THEN r.h[node].value ELSE 0,
              exc |-> r.exc]
    ELSE [h |-> h, knh |-> knh, fdh |-> fdh, mf |-> mf,
          out |-> LFUNotFound, exc |-> "none"]

\* Mutant: the capacity test fires one key too late.
LFUIsFullLate(knh, cap) == Cardinality(DOMAIN knh) > cap

\* The test `len(self.key_node_hash) == self.capacity` of LFUCache.put
LFUIsFull(knh, cap) == Cardinality(DOMAIN knh) = cap

\* Mutant: the node next to the head of the min_freq list is taken.
LFUNodeToBeRemovedFront(h, fdh, mf) == h[fdh[mf][1]].next

\* `head, tail = self.freq_dll_hash[self.min_freq]; node = tail.prev`
LFUNodeToBeRemoved(h, fdh, mf) == h[fdh[mf][2]].prev

\* `node.value = value` of LFUCache.put
LFUSetValue(h, node, value) == [h EXCEPT ![node].value = value]

\* `self.min_freq = 1` after a new key is added
MinFreqAfterInsert == 1

\* LFUCache.put, the part that adds a new key: Node(key, value) is indexed,
\* linked into the list of frequency 1, and min_freq becomes 1.
LFUInsert(h, knh, fdh, mf, key, value) ==
    LET node == FreshSlot(h, key)
        h1   == Extend(h, node, LFUNode(key, value))
        knh1 == Extend(knh, key, node)
        a    == AddNodeInGivenFreqDll(h1, fdh, node, 1)
    IN  [h |-> a.h, knh |-> knh1, fdh |-> a.fdh,
         mf |-> IF a.exc = "none" THEN MinFreqAfterInsert ELSE mf,
         out |-> 0, exc |-> a.exc]

\* LFUCache.put
LFUPutStep(h, knh, fdh, mf, cap, key, value) ==
    IF key \in DOMAIN knh
    THEN LET node == knh[key]
             h1   == LFUSetValue(h, node, value)
             r    == IncrementTheFreqOfNode(h1, fdh, mf, node)
         IN  [h |-> r.h, knh |-> knh, fdh |-> r.fdh, mf |-> r.mf,
              out |-> 0, exc |-> r.exc]
    ELSE IF LFUIsFull(knh, cap)
         THEN IF mf \notin DOMAIN fdh
              THEN [h |-> h, knh |-> knh, fdh |-> fdh, mf |-> mf,
                    out |-> 0, exc |-> "KeyError"]
              ELSE LET node == LFUNodeToBeRemoved(h, fdh, mf)
                       r    == RemoveTheGivenNode(h, node)
                   IN  IF r.exc # "none"
                       THEN [h |-> r.h, knh |-> knh, fdh |-> fdh, mf |-> mf,
                             out |-> 0, exc |-> r.exc]
                       ELSE IF r.h[node].key \notin DOMAIN knh
                            THEN [h |-> r.h, knh |-> knh, fdh |-> fdh, mf |-> mf,
                                  out |-> 0, exc |-> "KeyError"]
                            ELSE LET knh1 == Without(knh, r.h[node].key)
                                     h1   == Release(r.h, knh1, node)
                                 IN  LFUInsert(h1, knh1, fdh, mf, key, value)
         ELSE LFUInsert(h, knh, fdh, mf, key, value)

\* ------------------------------------------------------ history variables
\* The hash index of the instance, whichever class it is.
Index == IF kind = "LRU" THEN hash_map ELSE key_node_hash

Resident == DOMAIN Index
Size     == Cardinality(Resident)

\* The value stored under a resident key.
ValueOf(k) == heap[Index[k]].value

Only(s, keep) ==
    LET Kept(x) == x \in keep
    IN  SelectSeq(s, Kept)

\* use_order after a call on key: a call that succeeded on a key that is
\* resident afterwards makes it the most recently touched; keys that left
\* the index leave the order.
Touched(order, key, touch, resident) ==
    LET rest == Only(order, resident \ {key})
    IN  IF touch /\ key \in resident THEN Append(rest, key)
        ELSE Only(order, resident)

\* The call sequences of the specification's worked examples, as <<op, key,
\* value>>; hist follows the calls while they are a prefix of one of them.
ScriptLRU == << <<"put", 1, 1>>, <<"put", 2, 2>>, <<"get", 1, 0>>,
                <<"put", 3, 3>>, <<"get", 2, 0>>, <<"get", 1, 0>>,
                <<"get", 3, 0>> >>
ScriptLFU == << <<"put", 1, 1>>, <<"put", 2, 2>>, <<"get", 1, 0>>,
                <<"put", 3, 3>>, <<"get", 2, 0>>, <<"get", 3, 0>>,
                <<"put", 4, 4>>, <<"get", 3, 0>>, <<"get", 1, 0>>,
                <<"get", 4, 0>> >>
ScriptCap1 == << <<"put", 1, 1>>, <<"put", 2, 2>>, <<"get", 1, 0>>,
                 <<"get", 2, 0>> >>
Scripts == {ScriptLRU, ScriptLFU, ScriptCap1}

OffScript == << [call |-> <<"off", 0, 0>>, out |-> 0, exc |-> "none"] >>

Follows(h, call) ==
    /\ h # OffScript
    /\ \E s \in Scripts :
          /\ Len(h) < Len(s)
          /\ \A i \in 1..Len(h) : h[i].call = s[i]
          /\ s[Len(h) + 1] = call

\* What every call leaves in the history variables. ret also keeps what the
\* call found: whether key was resident (hit), whether the index held
\* capacity keys (full), the least recently touched key (oldest, 0 if none),
\* and the keys that left the index during the call (evicted).
Record(op, key, value, out, exc, resident) ==
    /\ ret' = [op |-> op, key |-> key, value |-> value,
               hit |-> key \in Resident, full |-> Size = capacity,
               oldest |-> IF use_order = <<>> THEN 0 ELSE use_order[1],
               evicted |-> Resident \ resident,
               out |-> out, exc |-> exc]
    /\ use_order' = Touched(use_order, key,
                            exc = "none" /\ (op = "put" \/ key \in Resident),
                            resident)
    /\ hist' = IF Follows(hist, <<op, key, value>>)
               THEN Append(hist, [call |-> <<op, key, value>>,
                                  out |-> out, exc |-> exc])
               ELSE OffScript

\* ------------------------------------------------------------ the machine
\* Each call is one step: s is the outcome of the whole method.
\* LRUCache.__init__ / LFUCache.__init__: capacity is stored as given.
Init ==
    /\ kind \in {"LRU", "LFU"}
    /\ capacity \in Capacities
    /\ heap = IF kind = "LRU" THEN LRUInitHeap ELSE EmptyMap
    /\ hash_map = EmptyMap
    /\ key_node_hash = EmptyMap
    /\ freq_dll_hash = EmptyMap
    /\ min_freq = 1
    /\ ret = [op |-> "init", key |-> 0, value |-> 0, hit |-> FALSE,
              full |-> FALSE, oldest |-> 0, evicted |-> {},
              out |-> 0, exc |-> "none"]
    /\ use_order = <<>>
    /\ hist = <<>>

LRUGet(key) ==
    /\ kind = "LRU"
    /\ \E s \in {LRUGetStep(heap, hash_map, key)} :
           /\ heap' = s.h
           /\ hash_map' = s.hm
           /\ Record("get", key, 0, s.out, s.exc,
                     DOMAIN s.hm)
    /\ UNCHANGED <<kind, capacity, key_node_hash, freq_dll_hash, min_freq>>

LRUPut(key, value) ==
    /\ kind = "LRU"
    /\ HasFreeSlot(heap)
    /\ \E s \in {LRUPutStep(heap, hash_map, capacity, key, value)} :
           /\ heap' = s.h
           /\ hash_map' = s.hm
           /\ Record("put", key, value, s.out, s.exc,
                     DOMAIN s.hm)
    /\ UNCHANGED <<kind, capacity, key_node_hash, freq_dll_hash, min_freq>>

\* A node is bumped only below MaxFreq (the bound of the model).
CanBump(key) ==
    key \in DOMAIN key_node_hash => heap[key_node_hash[key]].freq < MaxFreq

LFUGet(key) ==
    /\ kind = "LFU"
    /\ CanBump(key)
    /\ \E s \in {LFUGetStep(heap, key_node_hash, freq_dll_hash, min_freq, key)} :
           /\ heap' = s.h
           /\ key_node_hash' = s.knh
           /\ freq_dll_hash' = s.fdh
           /\ min_freq' = s.mf
           /\ Record("get", key, 0, s.out, s.exc,
                     DOMAIN s.knh)
    /\ UNCHANGED <<kind, capacity, hash_map>>

LFUPut(key, value) ==
    /\ kind = "LFU"
    /\ CanBump(key)
    /\ HasFreeSlot(heap)
    /\ \E s \in {LFUPutStep(heap, key_node_hash, freq_dll_hash, min_freq,
                           capacity, key, value)} :
           /\ heap' = s.h
           /\ key_node_hash' = s.knh
           /\ freq_dll_hash' = s.fdh
           /\ min_freq' = s.mf
           /\ Record("put", key, value, s.out, s.exc,
                     DOMAIN s.knh)
    /\ UNCHANGED <<kind, capacity, hash_map>>

Next ==
    \E key \in Keys :
        \/ LRUGet(key)
        \/ LFUGet(key)
        \/ \E value \in PutValues(key) : LRUPut(key, value)
        \/ \E value \in PutValues(key) : LFUPut(key, value)

Spec == Init /\ [][Next]_vars

\* The caller of the specification's worked examples: keys 1..4, and put
\* always stores the key as its value.
TraceKeys == {1, 2, 3, 4}

NextTrace ==
    \E key \in TraceKeys :
        \/ LRUGet(key)
        \/ LFUGet(key)
        \/ LRUPut(key, key)
        \/ LFUPut(key, key)

SpecTrace == Init /\ [][NextTrace]_vars

\* ================================================================ claims
\* The frequency of a resident key (LFU).
FreqOf(k) == heap[key_node_hash[k]].freq

\* The resident keys of least frequency (LFU).
LeastFrequent == {k \in Resident : \A j \in Resident : FreqOf(k) <= FreqOf(j)}

\* The least recently touched key among the keys of set S.
OldestOf(S) == Only(use_order, S)[1]

\* hist is the first n calls of script s.
Followed(s, n) ==
    /\ Len(hist) = n
    /\ n <= Len(s)
    /\ \A i \in 1..n : hist[i].call = s[i]

\* hist is a non-empty prefix of script s whose results so far are those
\* of outs: every call returned, and returned outs[i].
PrefixReturns(s, outs) ==
    (Len(hist) >= 1 /\ Followed(s, Len(hist))) =>
        \A i \in 1..Len(hist) : hist[i].exc = "none" /\ hist[i].out = outs[i]

\* ------------------------------------------------------------------- C1
\* C1: for both caches built with capacity >= 1, after every get or put the
\* number of keys in the hash index is between 0 and capacity.
C1_SizeWithinCapacity ==
    capacity >= 1 => (Size >= 0 /\ Size <= capacity)

\* A put at capacity has just evicted a key and the index is full again.
C1_Witness ==
    /\ capacity >= 1
    /\ ret.op = "put" /\ ret.full /\ ret.evicted # {}
    /\ Size = capacity

\* ------------------------------------------------------------------- C2
\* A put of a key that is not indexed, on a full LRU cache.
C2_Step ==
    (/\ kind = "LRU" /\ capacity >= 1
     /\ ret'.op = "put" /\ ret'.key \notin Resident /\ Size = capacity)
    => /\ heap[heap[LRUTail].prev].key = OldestOf(Resident)
       /\ Resident' = (Resident \ {OldestOf(Resident)}) \cup {ret'.key}
       /\ ret'.evicted = {OldestOf(Resident)}

\* What the calls of ScriptLRU return on an LRU cache of capacity 2.
C2_Outs == <<0, 0, 1, 0, -1, 1, 3>>

C2_Example ==
    (kind = "LRU" /\ capacity = 2) =>
        /\ PrefixReturns(ScriptLRU, C2_Outs)
        /\ Followed(ScriptLRU, 4) => (ret.evicted = {2} /\ Resident = {1, 3})

\* C2: in an LRU cache of capacity >= 1, a put of a key that is not indexed
\* while size = capacity removes exactly the key whose last successful get
\* or put is the oldest among the resident keys (the node before the tail),
\* and no other key; with capacity 2, put(1,1) put(2,2) get(1) put(3,3)
\* evicts key 2, then get(2) is not found, get(1) is 1 and get(3) is 3.
C2_LRUEvictsLeastRecentlyUsed == [][C2_Step]_vars /\ []C2_Example

\* The whole example has run on an LRU cache of capacity 2.
C2_Witness == kind = "LRU" /\ capacity = 2 /\ Followed(ScriptLRU, 7)

\* ------------------------------------------------------------------- C3
\* A put of a key that is not indexed, on a full LFU cache.
C3_Step ==
    (/\ kind = "LFU" /\ capacity >= 1
     /\ ret'.op = "put" /\ ret'.key \notin Resident /\ Size = capacity)
    => /\ Resident' = (Resident \ {OldestOf(LeastFrequent)}) \cup {ret'.key}
       /\ ret'.evicted = {OldestOf(LeastFrequent)}

\* C3: in an LFU cache of capacity >= 1, a put of a key that is not indexed
\* while size = capacity removes exactly one key: one of least frequency
\* among the resident keys and, among those, the least recently touched.
C3_LFUEvictsLeastFrequentOldest == [][C3_Step]_vars

\* An LFU eviction that spared the least recently touched key of the cache,
\* because that key had been used more often.
C3_Witness ==
    /\ kind = "LFU" /\ capacity >= 1
    /\ ret.op = "put" /\ ret.full /\ ret.evicted # {}
    /\ ret.oldest \in Resident

\* ------------------------------------------------------------------- C4
\* The results C4 states for the calls of ScriptLFU.
C4_OutsAsClaimed == <<0, 0, 1, 0, -1, 3, 0, -1, 1, 4>>

\* C4 as stated: on an LFU cache of capacity 2 the calls of ScriptLFU evict
\* key 2 at put(3,3) and key 3 at put(4,4), after which get(3) is not found,
\* get(1) returns 1 and get(4) returns 4.
C4_AsClaimed ==
    (kind = "LFU" /\ capacity = 2) =>
        /\ PrefixReturns(ScriptLFU, C4_OutsAsClaimed)
        /\ Followed(ScriptLFU, 4) => ret.evicted = {2}
        /\ Followed(ScriptLFU, 7) => ret.evicted = {3}

\* The results the calls of ScriptLFU have.
C4_Outs == <<0, 0, 1, 0, -1, 3, 0, 3, -1, 4>>

\* C4, amended: on an LFU cache of capacity 2 the calls of ScriptLFU evict
\* key 2 at put(3,3) and key 1 at put(4,4) (keys 1 and 3 both have frequency
\* 2 then, and key 1 is the less recently touched), after which get(3)
\* returns 3, get(1) is not found and get(4) returns 4.
C4_LFUTrace ==
    (kind = "LFU" /\ capacity = 2) =>
        /\ PrefixReturns(ScriptLFU, C4_Outs)
        /\ Followed(ScriptLFU, 4) => (ret.evicted = {2} /\ Resident = {1, 3})
        /\ Followed(ScriptLFU, 7) => (ret.evicted = {1} /\ Resident = {3, 4})

\* The whole of ScriptLFU has run on an LFU cache of capacity 2.
C4_Witness == kind = "LFU" /\ capacity = 2 /\ Followed(ScriptLFU, 10)

\* ------------------------------------------------------------------- C5
\* What get(k) would do in the current state.
GetNow(k) ==
    IF kind = "LRU"
    THEN LRUGetStep(heap, hash_map, k)
    ELSE LFUGetStep(heap, key_node_hash, freq_dll_hash, min_freq, k)

\* What the caller of get(k) would observe in the current state.
GetOutcome(k) ==
    LET g == GetNow(k)
    IN  <<g.exc, g.out>>

\* C5: for both caches with capacity >= 1, put(k, v) immediately followed by
\* get(k) returns v: the put leaves k resident (it never evicts k itself)
\* and the get that follows returns the value just put.
C5_PutThenGet ==
    (capacity >= 1 /\ ret.op = "put") =>
        /\ ret.exc = "none"
        /\ ret.key \in Resident
        /\ ret.key \notin ret.evicted
        /\ GetOutcome(ret.key) = <<"none", ret.value>>

\* A put has stored -1 under a key that was already resident.
C5_Witness ==
    /\ capacity >= 1
    /\ ret.op = "put" /\ ret.hit /\ ret.value = -1
    /\ GetOutcome(ret.key) = <<"none", -1>>

C7_NonPositiveCapacityRejected ==
    ret.op \in {"get", "put"} => capacity >= 1

\* ------------------------------------------------------------------- C8
\* The node the eviction branch would remove in the current state is an
\* entry node that the index maps its key to.
VictimIsEntry(n, index) ==
    /\ n # None
    /\ n \in DOMAIN heap
    /\ ~IsSentinel(n)
    /\ heap[n].key \in DOMAIN index
    /\ index[heap[n].key] = n

\* C8: for both caches with capacity >= 1, no get or put faults; whenever
\* the eviction branch can run (the index holds capacity keys), the LRU node
\* before the tail sentinel is a real entry, and in LFU freq_dll_hash has a
\* list at min_freq whose node before the tail sentinel is a real entry
\* with its key in the index.
C8_NoFault ==
    capacity >= 1 =>
        /\ ret.exc = "none"
        /\ (kind = "LRU" /\ Size = capacity) =>
              VictimIsEntry(LRUNodeToBeRemoved(heap), hash_map)
        /\ (kind = "LFU" /\ Size = capacity) =>
              /\ min_freq \in DOMAIN freq_dll_hash
              /\ VictimIsEntry(
                    LFUNodeToBeRemoved(heap, freq_dll_hash, min_freq),
                    key_node_hash)

\* A full LFU cache from which the eviction branch takes its victim in a
\* list other than that of frequency 1, which exists and is empty.
C8_Witness ==
    /\ kind = "LFU" /\ capacity >= 1 /\ Size = capacity
    /\ min_freq > 1
    /\ 1 \in DOMAIN freq_dll_hash
    /\ ret.exc = "none"

\* ------------------------------------------------------------------- C9
\* The stored key-to-value mapping.
Mapping == [k \in Resident |-> ValueOf(k)]

C9_Step ==
    ret'.op = "get" =>
        /\ ret'.exc = "none"
        /\ Mapping' = Mapping
        /\ ret'.hit => ret'.out = ValueOf(ret'.key)
        /\ (ret.op = "get" /\ ret.key = ret'.key /\ ret'.hit) =>
              ret'.out = ret.out

\* C9: for both caches get never changes the stored key-to-value mapping:
\* the resident keys and the value of each are the same after a get (hit
\* or miss) as before, and get(k) repeated on a resident key returns the
\* same value each time.
C9_GetKeepsMapping == [][C9_Step]_vars

\* A get has hit an LFU key for at least the second time.
C9_Witness ==
    /\ kind = "LFU"
    /\ ret.op = "get" /\ ret.hit
    /\ FreqOf(ret.key) >= 3

\* ------------------------------------------------------------------ C10
C10_Step ==
    capacity = 1 =>
        /\ ret'.op = "put" =>
              /\ Resident' = {ret'.key}
              /\ ret'.key \notin Resident => ret'.evicted = Resident
        /\ ret'.op = "get" => Resident' = Resident

\* What the calls of ScriptCap1 return on a cache of capacity 1.
C10_Outs == <<0, 0, -1, 2>>

C10_Example ==
    capacity = 1 =>
        /\ PrefixReturns(ScriptCap1, C10_Outs)
        /\ ret.op = "put" => Resident = {ret.key}

\* C10: for both caches built with capacity 1, every put of a key other
\* than the resident one evicts the resident key, so the cache holds exactly
\* the most recently put key; put(1,1) put(2,2) leaves get(1) not found and
\* get(2) returning 2.
C10_CapacityOne == [][C10_Step]_vars /\ []C10_Example

\* The example has run on a cache of capacity 1.
C10_Witness == capacity = 1 /\ Followed(ScriptCap1, 4)


\* ------------------------------------------------------------------ C11
\* The call that has just returned was a frequency bump: a get or a put of
\* a key that was resident.
Bumped ==
    /\ kind = "LFU"
    /\ ret.op \in {"get", "put"} /\ ret.hit /\ ret.exc = "none"

\* The lists the bump's closing __reset_min_freq tested. The rescan is the
\* last statement of the bump, so it reads the lists the call leaves.
BumpScan == ResetMinFreqScan(heap, freq_dll_hash)

\* C11: a frequency bump of the LFU cache maintains min_freq by inspecting
\* only the bucket the node left and the bucket it entered, never the other
\* frequency buckets.
C11_BumpInspectsTwoBuckets ==
    Bumped => BumpScan \subseteq {FreqOf(ret.key) - 1, FreqOf(ret.key)}

\* ------------------------------------------------------------------ C12
\* C12: in the LFU cache built with capacity >= 1, whenever the cache is
\* non-empty after a get or put, min_freq is the minimum of the freq fields
\* of the resident nodes; every put that inserts a new key leaves min_freq 1.
C12_MinFreqIsTrueMinimum ==
    (kind = "LFU" /\ capacity >= 1 /\ ret.op \in {"get", "put"}) =>
        /\ Resident # {} =>
              /\ \E k \in Resident : min_freq = FreqOf(k)
              /\ \A k \in Resident : min_freq <= FreqOf(k)
        /\ (ret.op = "put" /\ ~ret.hit) => (ret.exc = "none" /\ min_freq = 1)

\* A bump has moved the minimum: two keys are resident and none is left at
\* frequency 1.
C12_Witness ==
    /\ Bumped /\ capacity >= 1
    /\ Size = 2
    /\ min_freq >= 2

\* ------------------------------------------------------------------ C13
\* The nodes met from n by following next, up to stop (left out); the walk
\* ends at a None link and after fuel nodes.
RECURSIVE Forward(_, _, _, _)
Forward(h, n, stop, fuel) ==
    IF n = stop \/ n \notin DOMAIN h \/ fuel = 0
    THEN <<>>
    ELSE <<n>> \o Forward(h, h[n].next, stop, fuel - 1)

\* The nodes met from n by following prev, up to stop (left out).
RECURSIVE Backward(_, _, _, _)
Backward(h, n, stop, fuel) ==
    IF n = stop \/ n \notin DOMAIN h \/ fuel = 0
    THEN <<>>
    ELSE <<n>> \o Backward(h, h[n].prev, stop, fuel - 1)

Occurrences(s, x) == Cardinality({i \in 1..Len(s) : s[i] = x})

Reverse(s) == [i \in 1..Len(s) |-> s[Len(s) + 1 - i]]

\* The nodes of the list of frequency f, from its head to its tail.
BucketNodesIn(h, fdh, f) ==
    Forward(h, h[fdh[f][1]].next, fdh[f][2], Cardinality(DOMAIN h))

BucketNodes(f) == BucketNodesIn(heap, freq_dll_hash, f)

\* C13: in the LFU cache, after every operation each key of key_node_hash is
\* linked in exactly one bucket list, the one of its node's freq, and every
\* non-sentinel node reached by traversing a bucket list is the node that
\* key_node_hash maps its key to: no evicted or duplicate node stays linked.
C13_LFUIndexMatchesBuckets ==
    kind = "LFU" =>
        /\ \A k \in DOMAIN key_node_hash :
              LET n == key_node_hash[k]
              IN  /\ heap[n].freq \in DOMAIN freq_dll_hash
                  /\ \A f \in DOMAIN freq_dll_hash :
                        Occurrences(BucketNodes(f), n) =
                            IF f = heap[n].freq THEN 1 ELSE 0
        /\ \A f \in DOMAIN freq_dll_hash :
              LET nodes == BucketNodes(f)
              IN  \A i \in 1..Len(nodes) :
                     /\ ~IsSentinel(nodes[i])
                     /\ heap[nodes[i]].key \in DOMAIN key_node_hash
                     /\ key_node_hash[heap[nodes[i]].key] = nodes[i]

\* A put has evicted a node while another list holds a bumped node.
C13_Witness ==
    /\ kind = "LFU"
    /\ ret.op = "put" /\ ret.evicted # {}
    /\ Size = 2
    /\ \E k \in Resident : FreqOf(k) >= 2

\* ------------------------------------------------------------------ C14
\* The nodes of the LRU list from head to tail, and from tail to head.
LRUForward ==
    Forward(heap, heap[LRUHead].next, LRUTail, Cardinality(DOMAIN heap))
LRUBackward ==
    Backward(heap, heap[LRUTail].prev, LRUHead, Cardinality(DOMAIN heap))

\* C14: in the LRU cache, after every operation the keys of hash_map are the
\* keys of the nodes linked between head and tail, each key on exactly one
\* linked node, and prev/next agree: the walk forward from head and the walk
\* backward from tail visit the same nodes in reverse order.
C14_LRUIndexMatchesList ==
    kind = "LRU" =>
        /\ {heap[LRUForward[i]].key : i \in 1..Len(LRUForward)} = DOMAIN hash_map
        /\ \A k \in DOMAIN hash_map :
              /\ Cardinality({i \in 1..Len(LRUForward) :
                                 heap[LRUForward[i]].key = k}) = 1
              /\ Occurrences(LRUForward, hash_map[k]) = 1
        /\ \A i \in 1..Len(LRUForward) : ~IsSentinel(LRUForward[i])
        /\ LRUBackward = Reverse(LRUForward)
        /\ heap[LRUHead].prev = None /\ heap[LRUTail].next = None

\* A put has evicted the node before tail and two nodes are linked.
C14_Witness ==
    /\ kind = "LRU"
    /\ ret.op = "put" /\ ret.evicted # {}
    /\ Len(LRUForward) = 2

\* ------------------------------------------------------------------ C15
\* The incremental rule for a bump from frequency f to f + 1, applied to the
\* minimum mf held before the bump: the minimum moves up exactly when the
\* bucket left became empty and was the minimum.
IncrementalMinFreq(mf, f, leftEmpty) ==
    IF leftEmpty /\ f = mf THEN f + 1 ELSE mf

\* One call of the LFU cache: the min_freq the code's rescan leaves is the
\* one the incremental rule computes from the min_freq before the call, and
\* the victim of an evicting put is the node before the tail of the bucket
\* of that min_freq.
C15_Step ==
    (kind = "LFU" /\ capacity >= 1 /\ ret'.op \in {"get", "put"}) =>
        /\ ret'.exc = "none"
        /\ ret'.hit =>
              min_freq' = IncrementalMinFreq(min_freq, FreqOf(ret'.key),
                              BucketNodesIn(heap', freq_dll_hash',
                                            FreqOf(ret'.key)) = <<>>)
        /\ (ret'.op = "put" /\ ~ret'.hit) => min_freq' = 1
        /\ (ret'.op = "get" /\ ~ret'.hit) => min_freq' = min_freq
        /\ ret'.evicted # {} =>
              ret'.evicted =
                  {heap[LFUNodeToBeRemoved(heap, freq_dll_hash, min_freq)].key}

\* C15: the incremental min-frequency rule (a bump from f to f + 1 moves
\* min_freq to f + 1 if bucket f became empty and f was min_freq, and leaves
\* it otherwise; an insertion of a new key sets it to 1) yields after every
\* operation the same min_freq, and so the same eviction victims, as the
\* code's full rescan.
C15_IncrementalRuleMatchesRescan == [][C15_Step]_vars

\* A bump has emptied the bucket that was the minimum, and min_freq moved up
\* with the node.
C15_Witness ==
    /\ Bumped /\ capacity >= 1
    /\ Size = 2
    /\ min_freq = FreqOf(ret.key) /\ min_freq >= 2
    /\ BucketNodes(min_freq - 1) = <<>>

\* ------------------------------------------------------------------ C16
\* The frequency of key k after the step.
FreqAfter(k) == heap'[key_node_hash'[k]].freq

\* One call of the LFU cache on key k: k's frequency is 1 if the call
\* inserted it, one more than before if it was resident, and the frequency
\* of every other key that stays resident is unchanged.
C16_Step ==
    (kind = "LFU" /\ capacity >= 1 /\ ret'.op \in {"get", "put"}) =>
        LET k == ret'.key
        IN  /\ k \in Resident =>
                  /\ k \in Resident'
                  /\ FreqAfter(k) = FreqOf(k) + 1
            /\ (k \notin Resident /\ ret'.op = "put") =>
                  /\ k \in Resident'
                  /\ FreqAfter(k) = 1
            /\ (k \notin Resident /\ ret'.op = "get") => k \notin Resident'
            /\ \A j \in (Resident \cap Resident') \ {k} :
                  FreqAfter(j) = FreqOf(j)

\* C16: an LFU key's frequency is 1 when put inserts it, grows by exactly 1
\* on each get hit and each put of the resident key, and changes in no other
\* way; an operation on k never changes another resident key's frequency,
\* and a key inserted again after eviction starts again at 1.
C16_FrequencyCounts == [][C16_Step]_vars

\* A put has inserted a key over an evicted one, at frequency 1, next to a
\* resident key of higher frequency.
C16_Witness ==
    /\ kind = "LFU" /\ capacity >= 1
    /\ ret.op = "put" /\ ~ret.hit /\ ret.evicted # {}
    /\ FreqOf(ret.key) = 1
    /\ \E j \in Resident : FreqOf(j) >= 2

\* ------------------------------------------------------------------ C17
\* The keys of the LRU list of heap h, from head to tail.
LRUKeysIn(h) ==
    LET nodes == Forward(h, h[LRUHead].next, LRUTail, Cardinality(DOMAIN h))
    IN  [i \in 1..Len(nodes) |-> h[nodes[i]].key]

LRUKeys == LRUKeysIn(heap)

\* The list is the resident keys, most recently touched first.
C17_Order == kind = "LRU" => LRUKeys = Reverse(use_order)

\* A get hit or a put of k leaves k next to head and the other keys that
\* stay resident in the order they had.
C17_Step ==
    (kind = "LRU" /\ capacity >= 1 /\
     (ret'.op = "put" \/ (ret'.op = "get" /\ ret'.hit))) =>
        /\ ret'.exc = "none"
        /\ heap'[LRUHead].next = hash_map'[ret'.key]
        /\ Only(LRUKeysIn(heap'), Resident' \ {ret'.key}) =
               Only(LRUKeys, Resident' \ {ret'.key})

BucketKeysIn(h, fdh, f) ==
    IF f \notin DOMAIN fdh
    THEN <<>>
    ELSE LET nodes == BucketNodesIn(h, fdh, f)
         IN  [i \in 1..Len(nodes) |-> h[nodes[i]].key]

BucketKeys(f) == BucketKeysIn(heap, freq_dll_hash, f)

\* Each list is the resident keys of its frequency, most recently touched
\* first: the key before the tail is the least recently touched of them.
C18_Order ==
    kind = "LFU" =>
        \A f \in DOMAIN freq_dll_hash :
            BucketKeys(f) =
                Reverse(Only(use_order, {k \in Resident : FreqOf(k) = f}))

\* A bump of k from frequency f puts k at the front of the list of f + 1
\* and leaves the other keys of the lists of f and f + 1 in their order.
C18_Step ==
    (kind = "LFU" /\ capacity >= 1 /\ ret'.op \in {"get", "put"}
        /\ ret'.key \in Resident) =>
        LET k == ret'.key
            f == FreqOf(ret'.key)
        IN  /\ ret'.exc = "none"
            /\ f + 1 \in DOMAIN freq_dll_hash'
            /\ heap'[freq_dll_hash'[f + 1][1]].next = key_node_hash'[k]
            /\ BucketKeysIn(heap', freq_dll_hash', f) =
                   Only(BucketKeys(f), Resident \ {k})
            /\ BucketKeysIn(heap', freq_dll_hash', f + 1) =
                   <<k>> \o BucketKeys(f + 1)

C19_Step ==
    (capacity >= 1 /\ ret'.op \in {"get", "put"}) =>
        /\ Resident \ Resident' # {} =>
              /\ ret'.op = "put"
              /\ ret'.key \notin Resident
              /\ Size = capacity
              /\ Cardinality(Resident \ Resident') = 1
        /\ Size' >= Size
        /\ Size = capacity => Size' = capacity

\* C19: for both caches built with capacity >= 1, a resident key leaves the
\* cache only as the single victim of a put of a non-resident key made while
\* size equals capacity; get (hit or miss), put of a resident key (even when
\* full) and put of a new key below capacity never remove a key, so the
\* number of resident keys never decreases and stays equal to capacity once
\* it has reached it.
C19_KeysLeaveOnlyByEviction == [][C19_Step]_vars

\* A put of a resident key on a full cache of two keys has removed nothing.
C19_Witness ==
    /\ capacity = 2
    /\ ret.op = "put" /\ ret.hit /\ ret.full
    /\ ret.evicted = {}
    /\ Size = capacity

\* ------------------------------------------------------------------ C20
\* A get of a key that is not resident changes nothing of the cache: the
\* indexes, the nodes with their values, frequencies and links (so the LRU
\* list and every bucket, in order), the buckets and min_freq.
C20_Step ==
    (ret'.op = "get" /\ ret'.key \notin Resident) =>
        /\ ret'.exc = "none"
        /\ UNCHANGED <<capacity, heap, hash_map, key_node_hash,
                       freq_dll_hash, min_freq>>

\* C20: for both caches, get on a non-resident key leaves the entire cache
\* state unchanged: the set of resident keys, their values, the LRU list
\* order, and the LFU frequencies, bucket contents and order, and min_freq.
C20_GetMissChangesNothing == [][C20_Step]_vars

\* A get has missed on an LFU cache holding two keys, none at frequency 1.
C20_Witness ==
    /\ kind = "LFU"
    /\ ret.op = "get" /\ ~ret.hit /\ ret.out = LFUNotFound
    /\ Size = 2
    /\ min_freq >= 2

====
